---- MODULE Spec2Model ----
(***************************************************************************)
(* rusty-trading-egui: the watchlist registry (TemplateApp.stocks_map),    *)
(* the per-symbol sessions (Stock), the periodic refresh and its fetch     *)
(* callbacks, the render pass, and the order workflow of a stock window.   *)
(*                                                                         *)
(* Threads: one UI thread running eframe::App::update frame after frame,   *)
(* and one callback per outstanding ehttp::fetch, each on its own thread.  *)
(* A step of a thread runs from one point where other threads can see or   *)
(* change what it works on to the next: the UI thread's frame is cut where  *)
(* it takes a Stock mutex and where it drops it; a callback runs from the   *)
(* response to its write under the Stock mutex, then drops the guard.       *)
(***************************************************************************)
EXTENDS Integers, Sequences, FiniteSets, TLC

VARIABLES
    now,            \* the last value read from Utc::now() by update()
    last_update,    \* TemplateApp.last_update
    stock,          \* TemplateApp.stock, the symbol text field
    stocks_map,     \* TemplateApp.stocks_map: key -> handle (index in stocks)
    stocks,         \* the Stock objects ever created (Arc<Mutex<Stock>> targets)
    stock_lock,     \* holder of each Stock mutex: nobody, the UI thread or a fetch
    map_lock,       \* holder of the stocks_map mutex: "none" or "ui"
    fetches,        \* the ehttp::fetch calls of update_market_data, by slot
    ui_pc,          \* where the UI thread is in the frame
    render_todo,    \* keys the iteration of show_charts_area has still to visit
    cur,            \* the key whose window is being built
    points,         \* plot_stock_enhanced's local `points`
    time_step,      \* plot_stock_enhanced's local `time_step`
    box_elements,   \* the BoxElems plot_candle has handed to the plot
    repaint,        \* a repaint has been requested and no frame has begun since
    panic,          \* "none", "thread" (a fetch thread died), "process"
    latest,         \* per Stock: payload of the replace that last took its mutex
    trades          \* the Transactions execute_trade has handed to ehttp::fetch

vars == <<now, last_update, stock, stocks_map, stocks, stock_lock, map_lock,
          fetches, ui_pc, render_todo, cur, points, time_step, box_elements,
          repaint, panic, latest, trades>>

----------------------------------------------------------------------------
(* Bounds of the model *)

MaxNow == 2
MaxStocks == 2
MaxFetch == 2
MaxVersion == 2
MaxTrades == 1
MaxPoints == 3

(* Program constants *)

REFRESH_SECS == 1

Symbols == {"A", "B"}
SymbolOrder == <<"A", "B">>

----------------------------------------------------------------------------
(* Samples and series *)

SymIdx(key) == IF key = "A" THEN 1 ELSE 2

\* One OHLCV sample (rusty_trading_model::structs::Point) as the server's
\* fixture for `key` produces it: prices in cents, timestamps in ms.
FixturePoint(key, v, i) ==
    [timestamp |-> 1000 * i,
     open      |-> 1000 * SymIdx(key) + 10 * v + i,
     high      |-> 1000 * SymIdx(key) + 10 * v + i + 2,
     low       |-> 1000 * SymIdx(key) + 10 * v + i - 1,
     close     |-> 1000 * SymIdx(key) + 10 * v + i + 1,
     volume    |-> 100 * v + i]

\* TimeSeries::new(range, start, end, data)
NewTimeSeries(d) == [time_range |-> "Day", data |-> d]

\* The body of GET /stock?stock={key}, version v: v samples (0: no data yet).
Fixture(key, v) == NewTimeSeries([i \in 1..v |-> FixturePoint(key, v, i)])

Payloads(key) == {Fixture(key, v) : v \in 0..MaxVersion}

\* What ehttp hands the callback: a transport error, a body that is no
\* TimeSeries, or a body that deserializes to one.
Responses(key) ==
    {[kind |-> "err", body |-> NewTimeSeries(<<>>)],
     [kind |-> "malformed", body |-> NewTimeSeries(<<>>)]}
    \cup {[kind |-> "ok", body |-> p] : p \in Payloads(key)}

----------------------------------------------------------------------------
(* Text fields: a String is a sequence of one-character strings *)

Digits == {"0", "1", "2", "3", "4", "5", "6", "7", "8", "9"}

DigitVal(c) ==
    CASE c = "0" -> 0 [] c = "1" -> 1 [] c = "2" -> 2 [] c = "3" -> 3
      [] c = "4" -> 4 [] c = "5" -> 5 [] c = "6" -> 6 [] c = "7" -> 7
      [] c = "8" -> 8 [] c = "9" -> 9

\* u32::MAX, in digits: the model's integers are narrower than u32.
U32MaxText == <<"4", "2", "9", "4", "9", "6", "7", "2", "9", "5">>

AllDigits(s) == \A i \in 1..Len(s) : s[i] \in Digits

RECURSIVE StripZeros(_)
StripZeros(s) == IF Len(s) > 1 /\ s[1] = "0" THEN StripZeros(Tail(s)) ELSE s

\* a <= b for digit texts of the same length
RECURSIVE DigitsLeq(_, _)
DigitsLeq(a, b) ==
    IF a = <<>> THEN TRUE
    ELSE IF DigitVal(a[1]) < DigitVal(b[1]) THEN TRUE
    ELSE IF DigitVal(a[1]) > DigitVal(b[1]) THEN FALSE
    ELSE DigitsLeq(Tail(a), Tail(b))

FitsU32(d) ==
    LET z == StripZeros(d)
    IN Len(z) < Len(U32MaxText) \/ (Len(z) = Len(U32MaxText) /\ DigitsLeq(z, U32MaxText))

\* str::parse::<u32>: an optional '+', then one or more digits, in range.
\* The result is [ok, val], the value in digits without leading zeros.
ParseU32(s) ==
    LET body == IF s # <<>> /\ s[1] = "+" THEN Tail(s) ELSE s
    IN IF body # <<>> /\ AllDigits(body) /\ FitsU32(body)
       THEN [ok |-> TRUE, val |-> StripZeros(body)]
       ELSE [ok |-> FALSE, val |-> <<>>]

Lower(c) ==
    CASE c = "I" -> "i" [] c = "N" -> "n" [] c = "F" -> "f" [] c = "T" -> "t"
      [] c = "Y" -> "y" [] c = "A" -> "a" [] c = "E" -> "e" [] OTHER -> c

LowerText(s) == [i \in 1..Len(s) |-> Lower(s[i])]

\* The first index of s holding a character of cs, 0 when there is none.
RECURSIVE IndexOf(_, _, _)
IndexOf(s, cs, i) ==
    IF i > Len(s) THEN 0 ELSE IF s[i] \in cs THEN i ELSE IndexOf(s, cs, i + 1)

HasSign(s) == s # <<>> /\ s[1] \in {"+", "-"}
StripSign(s) == IF HasSign(s) THEN Tail(s) ELSE s

\* core::num::dec2flt: [sign] ("inf" | "infinity" | "nan"), case-insensitive,
\* or [sign] digits* ['.' digits*] [('e'|'E') [sign] digits+] with at least one
\* digit in the mantissa. The result is [ok, class]: the class of the value is
\* "nan", "inf", "neginf", "zero", "pos" or "neg" (texts whose exponent takes
\* the value out of the type's range are not among the inputs).
ParseFloat(s) ==
    LET neg  == s # <<>> /\ s[1] = "-"
        body == StripSign(s)
        low  == LowerText(body)
        e    == IndexOf(low, {"e"}, 1)
        mant == IF e = 0 THEN body ELSE SubSeq(body, 1, e - 1)
        ex   == IF e = 0 THEN <<>> ELSE SubSeq(body, e + 1, Len(body))
        dot  == IndexOf(mant, {"."}, 1)
        ip   == IF dot = 0 THEN mant ELSE SubSeq(mant, 1, dot - 1)
        fp   == IF dot = 0 THEN <<>> ELSE SubSeq(mant, dot + 1, Len(mant))
        okm  == AllDigits(ip) /\ AllDigits(fp) /\ Len(ip) + Len(fp) >= 1
        oke  == e = 0 \/ (StripSign(ex) # <<>> /\ AllDigits(StripSign(ex)))
        nz   == \E i \in 1..Len(mant) : mant[i] \in Digits \ {"0"}
    IN IF low = <<"n", "a", "n">> THEN [ok |-> TRUE, class |-> "nan"]
       ELSE IF low \in {<<"i", "n", "f">>, <<"i", "n", "f", "i", "n", "i", "t", "y">>}
       THEN [ok |-> TRUE, class |-> IF neg THEN "neginf" ELSE "inf"]
       ELSE IF okm /\ oke
       THEN [ok |-> TRUE,
             class |-> IF ~nz THEN "zero" ELSE IF neg THEN "neg" ELSE "pos"]
       ELSE [ok |-> FALSE, class |-> "nan"]

\* str::parse::<f32> (validate_trade_inputs) and str::parse::<f64>
\* (execute_trade) accept the same texts.
ParseF32(s) == ParseFloat(s)
ParseF64(s) == ParseFloat(s)

DigitChar(d) ==
    CASE d = 0 -> "0" [] d = 1 -> "1" [] d = 2 -> "2" [] d = 3 -> "3"
      [] d = 4 -> "4" [] d = 5 -> "5" [] d = 6 -> "6" [] d = 7 -> "7"
      [] d = 8 -> "8" [] d = 9 -> "9"

RECURSIVE NatToText(_)
NatToText(n) ==
    IF n < 10 THEN <<DigitChar(n)>>
    ELSE NatToText(n \div 10) \o <<DigitChar(n % 10)>>

\* f32::to_string of a non-negative price held in cents: the shortest text,
\* no trailing zeros, no point for a whole number.
FormatF32(cents) ==
    LET w == cents \div 100
        f == cents % 100
    IN IF f = 0 THEN NatToText(w)
       ELSE IF f % 10 = 0 THEN NatToText(w) \o <<".", DigitChar(f \div 10)>>
       ELSE NatToText(w) \o <<".", DigitChar(f \div 10), DigitChar(f % 10)>>

----------------------------------------------------------------------------
(* Stock *)

\* Stock::default(stock_name). last_update is written here and never read
\* again; it is left out.
DefaultStock(name) ==
    [stock_name |-> name,
     candle_toggle |-> TRUE,
     line_toggle |-> FALSE,
     volume_toggle |-> TRUE,
     time_series |-> NewTimeSeries(<<>>),
     qty |-> <<>>,
     price |-> <<>>,
     open |-> TRUE,
     current_price |-> 0,
     bid_price |-> 0,
     ask_price |-> 0,
     daily_change |-> 0,
     daily_change_percent |-> 0,
     volume |-> 0,
     show_order_confirmation |-> FALSE,
     pending_order_type |-> ""]

\* A set_time_series that fills a series only while it is empty.
set_time_series_if_empty(st, time_series) ==
    IF st.time_series.data = <<>> THEN [st EXCEPT !.time_series = time_series] ELSE st

\* Stock::set_time_series: lock the series' own mutex, move the new
\* TimeSeries in, unlock. The mutex is only ever taken by a thread that holds
\* the Stock's mutex, so the three are one step.
set_time_series(st, time_series) == [st EXCEPT !.time_series = time_series]

\* A snapshot that leaves the last sample out.
collect_all_but_last(time_series) ==
    SubSeq(time_series.data, 1, Len(time_series.data) - 1)

\* collect_time_series_points: lock, clone data(), unlock.
collect_time_series_points(time_series) == time_series.data

\* An f64 that the plot computes from whole milliseconds, held as the exact
\* fraction num / den (den > 0).
Rat(n, d) == [num |-> n, den |-> d]
RatLeq(a, b) == a.num * b.den <= b.num * a.den
RatEq(a, b) == a.num * b.den = b.num * a.den
RatMax(a, b) == IF RatLeq(a, b) THEN b ELSE a
RatTimes(a, b) == Rat(a.num * b.num, a.den * b.den)

DEFAULT_STEP_MS == 60000

\* The difference of two timestamps as it stands, with its sign.
time_delta_signed(t0, t1) == t1 - t0

\* window[1].timestamp.signed_duration_since(window[0].timestamp)
\*     .num_milliseconds().abs()
time_delta(t0, t1) == IF t1 - t0 < 0 THEN t0 - t1 ELSE t1 - t0

\* The loop of estimate_time_step over points.windows(2), from the i-th
\* window on: [total, count] of the differences that are > 0.
RECURSIVE step_windows(_, _)
step_windows(pts, i) ==
    IF i >= Len(pts) THEN [total |-> 0, count |-> 0]
    ELSE LET r    == step_windows(pts, i + 1)
             diff == time_delta(pts[i].timestamp, pts[i + 1].timestamp)
         IN IF diff > 0
            THEN [total |-> r.total + diff, count |-> r.count + 1]
            ELSE r

\* estimate_time_step
estimate_time_step(pts) ==
    IF Len(pts) < 2 THEN Rat(DEFAULT_STEP_MS, 1)
    ELSE LET r == step_windows(pts, 1)
         IN IF r.count > 0
            THEN RatMax(Rat(r.total, r.count), Rat(1, 1))
            ELSE Rat(DEFAULT_STEP_MS, 1)

\* A body width that is the plain product, without a floor.
candle_width_unclamped(step) == RatTimes(step, Rat(6, 10))

\* plot_candle, line 430: (time_step * 0.6).max(1.0)
candle_width(step) == RatMax(RatTimes(step, Rat(6, 10)), Rat(1, 1))

\* plot_candle, line 431: (candle_width * 0.4).max(1.0)
whisker_width(width) == RatMax(RatTimes(width, Rat(4, 10)), Rat(1, 1))

\* egui_plot's BoxSpread::new(lower_whisker, quartile1, median, quartile3,
\* upper_whisker)
BoxSpread(lower_whisker, quartile1, median, quartile3, upper_whisker) ==
    [lower_whisker |-> lower_whisker, quartile1 |-> quartile1, median |-> median,
     quartile3 |-> quartile3, upper_whisker |-> upper_whisker]

\* format!("{:.2}") of a non-negative price held in cents.
FormatFixed2(cents) ==
    NatToText(cents \div 100)
        \o <<".", DigitChar((cents % 100) \div 10), DigitChar(cents % 10)>>

\* plot_candle's element formatter, lines 455-464: the four lines of the
\* tooltip, by label.
element_formatter(spread) ==
    [Open  |-> FormatFixed2(spread.quartile3),
     Close |-> FormatFixed2(spread.quartile1),
     Low   |-> FormatFixed2(spread.lower_whisker),
     High  |-> FormatFixed2(spread.upper_whisker)]

\* plot_candle: one BoxElem per sample, red when the close fell below the
\* close before it, and the tooltip the formatter gives for it.
plot_candle(pts, step) ==
    [i \in 1..Len(pts) |->
        LET point  == pts[i]
            spread == BoxSpread(point.low, point.open, point.close, point.close,
                                point.high)
        IN [argument      |-> point.timestamp,
            spread        |-> spread,
            box_width     |-> candle_width(step),
            whisker_width |-> whisker_width(candle_width(step)),
            color         |-> IF i > 1 /\ pts[i - 1].close > point.close
                              THEN "LIGHT_RED" ELSE "LIGHT_GREEN",
            tooltip       |-> element_formatter(spread)]]

\* update_mock_market_data. `Utc::now().timestamp() as f32` keeps 24 bits of
\* a value near 2^31, so the time the quote is computed from moves in steps
\* of 128 s; time_factor = (that / 10) mod 2 pi is held in thousandths, and
\* its sine by quarter period as 0, 1, 0, -1. Prices are in cents, the
\* percentage in basis points.
F32_STEP_SECS == 128
TWO_PI_MILLI == 6283
TimeFactorMilli(t) == (100 * F32_STEP_SECS * (t \div F32_STEP_SECS)) % TWO_PI_MILLI
SinQ(tf) == LET q == (4 * tf) \div TWO_PI_MILLI
            IN CASE q = 0 -> 0 [] q = 1 -> 1 [] q = 2 -> 0 [] OTHER -> -1

update_mock_market_data(st, t) ==
    LET tf == TimeFactorMilli(t)
        cp == 17550 + SinQ(tf) * 500
        dc == SinQ(tf) * 250
    IN [st EXCEPT !.current_price = cp,
                  !.bid_price = cp - 5,
                  !.ask_price = cp + 5,
                  !.daily_change = dc,
                  !.daily_change_percent = (dc * 10000) \div cp,
                  !.volume = 1250000 + tf]

\* validate_trade_inputs
validate_trade_inputs(qty, price) == ParseU32(qty).ok /\ ParseF32(price).ok

\* execute_trade: both unwraps, the Transaction handed to ehttp::fetch, and
\* the form cleared. The result is [panicked, st, sent].
execute_trade(st) ==
    LET p == ParseF64(st.price)
        q == ParseU32(st.qty)
    IN IF ~p.ok \/ ~q.ok
       THEN [panicked |-> TRUE, st |-> st, sent |-> <<>>]
       ELSE [panicked |-> FALSE,
             st |-> [st EXCEPT !.qty = <<>>, !.price = <<>>],
             sent |-> <<[side |-> IF st.pending_order_type = "BUY"
                                  THEN "BUY" ELSE "SELL",
                         symbol |-> st.stock_name,
                         price |-> st.price,
                         qty |-> q.val]>>]

----------------------------------------------------------------------------
(* Input events of one frame *)

NoEvent == [type |-> "none", text |-> <<>>]

\* The trading panel: nothing, or a click on "Add to Watchlist" with the
\* symbol field holding what was typed since the last Add (nothing, or a
\* symbol).
PanelEvents ==
    {NoEvent} \cup {[type |-> "add", text |-> k] : k \in Symbols \cup {""}}

QtyTexts == {<<>>, <<"1", "0">>, <<"0">>, <<"a", "b", "c">>, <<"-", "1">>}
PriceTexts == {<<>>, <<"5", ".", "5", "0">>, <<"0">>, <<"a", "b", "c">>,
               <<"-", "1">>, <<"N", "a", "N">>}

\* What the user can do in a stock window within one frame.
WindowEvents ==
    {NoEvent}
    \cup {[type |-> b, text |-> <<>>] :
            b \in {"candle", "line", "volume", "buy", "sell", "market"}}
    \cup {[type |-> "qty", text |-> t] : t \in QtyTexts}
    \cup {[type |-> "price", text |-> t] : t \in PriceTexts}

DialogEvents == {NoEvent, [type |-> "confirm", text |-> <<>>],
                 [type |-> "cancel", text |-> <<>>]}

\* create_new_stock_window's main window, lines 87-183: the mock quote, then
\* the widget the event belongs to. (call_start_simulation only logs.)
stock_window(st, ev, t) ==
    LET m == update_mock_market_data(st, t)
    IN CASE ev.type = "candle" -> [m EXCEPT !.candle_toggle = ~m.candle_toggle]
         [] ev.type = "line"   -> [m EXCEPT !.line_toggle = ~m.line_toggle]
         [] ev.type = "volume" -> [m EXCEPT !.volume_toggle = ~m.volume_toggle]
         [] ev.type = "qty"    -> [m EXCEPT !.qty = ev.text]
         [] ev.type = "price"  -> [m EXCEPT !.price = ev.text]
         [] ev.type = "buy"    ->
              IF validate_trade_inputs(m.qty, m.price)
              THEN [m EXCEPT !.pending_order_type = "BUY",
                             !.show_order_confirmation = TRUE]
              ELSE m
         [] ev.type = "sell"   ->
              IF validate_trade_inputs(m.qty, m.price)
              THEN [m EXCEPT !.pending_order_type = "SELL",
                             !.show_order_confirmation = TRUE]
              ELSE m
         [] ev.type = "market" -> [m EXCEPT !.price = FormatF32(m.current_price)]
         [] OTHER -> m

\* show_order_confirmation_dialog: [panicked, st, sent].
order_dialog(st, ev) ==
    CASE ev.type = "confirm" ->
           LET r == execute_trade(st)
           IN IF r.panicked THEN r
              ELSE [r EXCEPT !.st = [r.st EXCEPT !.show_order_confirmation = FALSE]]
      [] ev.type = "cancel" ->
           [panicked |-> FALSE,
            st |-> [st EXCEPT !.show_order_confirmation = FALSE],
            sent |-> <<>>]
      [] OTHER -> [panicked |-> FALSE, st |-> st, sent |-> <<>>]

----------------------------------------------------------------------------
(* Fetch slots *)

Slots == 1..MaxFetch

\* Holders of a Stock's mutex
Unlocked == <<"none">>
ByUi == <<"ui">>
ByFetch(s) == <<"fetch", s>>

FreeFetch == [pc |-> "free", key |-> "", val |-> 0, kind |-> "none",
              body |-> NewTimeSeries(<<>>), stale |-> FALSE]

FreeSlots(f) == {s \in Slots : f[s].pc = "free"}

LowestFree(f) == CHOOSE s \in FreeSlots(f) : \A u \in FreeSlots(f) : s <= u

\* One iteration of update_market_data's loop: the request for `key`, and the
\* callback holding val_clone.
fetch_stock(f, key, val) ==
    [f EXCEPT ![LowestFree(f)] =
        [pc |-> "inflight", key |-> key, val |-> val, kind |-> "none",
         body |-> NewTimeSeries(<<>>), stale |-> FALSE]]

\* update_market_data's loop over map.iter_mut(), from the i-th symbol on.
RECURSIVE fetch_all(_, _, _)
fetch_all(f, map, i) ==
    IF i > Len(SymbolOrder) THEN f
    ELSE LET k == SymbolOrder[i]
         IN IF k \in DOMAIN map
            THEN fetch_all(fetch_stock(f, k, map[k]), map, i + 1)
            ELSE fetch_all(f, map, i + 1)

update_market_data(f, map) == fetch_all(f, map, 1)

\* A gate that opens only after more than the interval.
refresh_due_strict(last, t) == last + REFRESH_SECS < t

\* The gate of update(): self.last_update + Duration::from_secs(1) <= now
refresh_due(last, t) == last + REFRESH_SECS <= t

EmptyMap == [k \in {} |-> 0]

\* An insert that keeps the entry a key already has (entry().or_insert()).
map_insert_if_absent(map, key, val) ==
    [k \in DOMAIN map \cup {key} |-> IF k \in DOMAIN map THEN map[k] ELSE val]

\* HashMap::insert
map_insert(map, key, val) ==
    [k \in DOMAIN map \cup {key} |-> IF k = key THEN val ELSE map[k]]

\* A callback that writes the Stock of the map's first symbol.
callback_target_first(f) ==
    IF SymbolOrder[1] \in DOMAIN stocks_map THEN stocks_map[SymbolOrder[1]] ELSE f.val

\* Arc<Mutex<Stock>>: a Stock lives while the map or a callback holds a
\* clone of its handle.
Referenced(o, map, f) ==
    \/ \E k \in DOMAIN map : map[k] = o
    \/ \E s \in Slots : f[s].pc # "free" /\ f[s].val = o

\* What is left at the handle of a Stock that has been freed.
Dropped == [DefaultStock("") EXCEPT !.open = FALSE]

\* The drop of the last clone of a handle frees its Stock.
drop_unreferenced(stks, map, f) ==
    [o \in DOMAIN stks |-> IF Referenced(o, map, f) THEN stks[o] ELSE Dropped]

drop_unreferenced_series(lat, map, f) ==
    [o \in DOMAIN lat |-> IF Referenced(o, map, f) THEN lat[o] ELSE NewTimeSeries(<<>>)]

\* The Stock a fetch callback writes: the one behind its val_clone.
callback_target(f) == f.val

----------------------------------------------------------------------------
(* The UI thread: one frame of eframe::App::update *)

Running == panic # "process"

\* update(), lines 146-155: read the clock, refresh when due. `clock` is the
\* set of values the clock can show.
update(clock) ==
    /\ Running
    /\ ui_pc = "idle"
    /\ \E t \in clock :
         /\ now' = t
         /\ IF refresh_due(last_update, t)
            THEN /\ Cardinality(FreeSlots(fetches)) >= Cardinality(DOMAIN stocks_map)
                 /\ fetches' = update_market_data(fetches, stocks_map)
                 /\ last_update' = t
                 /\ repaint' = TRUE
            ELSE /\ UNCHANGED <<fetches, last_update>>
                 /\ repaint' = FALSE
    /\ ui_pc' = "panel"
    /\ UNCHANGED <<time_step, box_elements,
                   stock, stocks_map, stocks, stock_lock, map_lock, render_todo,
                   cur, points, panic, latest, trades>>

\* show_trading_panel: the symbol field and "Add to Watchlist".
show_trading_panel(events) ==
    /\ Running
    /\ ui_pc = "panel"
    /\ \E ev \in events :
         IF ev.type = "add" /\ ev.text # ""
         THEN LET map == map_insert(stocks_map, ev.text, Len(stocks) + 1)
              IN /\ Len(stocks) < MaxStocks
                 /\ stocks_map' = map
                 /\ stocks' = Append(drop_unreferenced(stocks, map, fetches),
                                     DefaultStock(ev.text))
                 /\ latest' = Append(drop_unreferenced_series(latest, map, fetches),
                                     NewTimeSeries(<<>>))
                 /\ stock_lock' = Append(stock_lock, Unlocked)
                 /\ stock' = ""
         ELSE /\ stock' = IF ev.type = "add" THEN ev.text ELSE stock
              /\ UNCHANGED <<stocks_map, stocks, stock_lock, latest>>
    /\ ui_pc' = "charts"
    /\ UNCHANGED <<time_step, box_elements, now, last_update,
                    map_lock, fetches, render_todo, cur, points,
                   repaint, panic, trades>>

\* show_charts_area, lines 353-358: nothing to draw, or take the map's mutex
\* for the whole iteration.
show_charts_area ==
    /\ Running
    /\ ui_pc = "charts"
    /\ IF DOMAIN stocks_map = {}
       THEN /\ ui_pc' = "idle"
            /\ UNCHANGED <<map_lock, render_todo>>
       ELSE /\ ui_pc' = "iter"
            /\ map_lock' = "ui"
            /\ render_todo' = DOMAIN stocks_map
    /\ UNCHANGED <<time_step, box_elements, now, last_update,
                    stock, stocks_map, stocks, stock_lock,
                   fetches, cur, points, repaint, panic, latest, trades>>

\* Line 359, stock.lock().unwrap(), which blocks while a callback holds the
\* mutex, and create_new_stock_window up to line 186: the window and its plot.
create_new_stock_window(events) ==
    /\ Running
    /\ ui_pc = "iter"
    /\ \E k \in render_todo, ev \in events :
         LET o  == stocks_map[k]
             st == stock_window(stocks[o], ev, now)
         IN /\ stock_lock[o] = Unlocked
            /\ stock_lock' = [stock_lock EXCEPT ![o] = ByUi]
            /\ cur' = k
            /\ stocks' = [stocks EXCEPT ![o] = st]
            /\ points' = collect_time_series_points(st.time_series)
            /\ time_step' = estimate_time_step(points')
            /\ box_elements' = IF st.candle_toggle
                               THEN plot_candle(points', time_step')
                               ELSE <<>>
    /\ ui_pc' = "dialog"
    /\ UNCHANGED <<now, last_update, stock, stocks_map, map_lock, fetches,
                   render_todo, repaint, panic, latest, trades>>

\* Lines 188-191 and the end of the loop body: the confirmation dialog when
\* it is up, then the Stock's guard is dropped; after the last window the
\* map's guard is dropped and the frame ends.
show_order_confirmation_dialog ==
    /\ Running
    /\ ui_pc = "dialog"
    /\ \E ev \in DialogEvents :
         LET o == stocks_map[cur]
             r == order_dialog(stocks[o], ev)
         IN /\ ev.type # "none" => stocks[o].show_order_confirmation
            /\ Len(trades) + Len(r.sent) <= MaxTrades
            /\ IF r.panicked
               THEN /\ panic' = "process"
                    /\ UNCHANGED <<stocks, stock_lock, map_lock, render_todo, cur,
                                   points, time_step, box_elements, ui_pc, trades>>
               ELSE /\ stocks' = [stocks EXCEPT ![o] = r.st]
                    /\ trades' = trades \o r.sent
                    /\ stock_lock' = [stock_lock EXCEPT ![o] = Unlocked]
                    /\ render_todo' = render_todo \ {cur}
                    /\ cur' = ""
                    /\ points' = <<>>
                    /\ time_step' = Rat(DEFAULT_STEP_MS, 1)
                    /\ box_elements' = <<>>
                    /\ ui_pc' = IF render_todo = {cur} THEN "idle" ELSE "iter"
                    /\ map_lock' = IF render_todo = {cur} THEN "none" ELSE "ui"
                    /\ UNCHANGED panic
    /\ UNCHANGED <<now, last_update, stock, stocks_map, fetches, repaint, latest>>

----------------------------------------------------------------------------
(* A fetch callback *)

\* The write of a response under the Stock's mutex, line 281.
write_response(s, r, o) ==
    /\ stock_lock' = [stock_lock EXCEPT ![o] = ByFetch(s)]
    /\ stocks' = [stocks EXCEPT ![o] = set_time_series(stocks[o], r.body)]
    /\ latest' = [latest EXCEPT ![o] = r.body]
    /\ fetches' = [fetches EXCEPT
                     ![s].pc = "written", ![s].kind = r.kind, ![s].body = r.body,
                     ![s].stale = (stocks_map[fetches[s].key] # fetches[s].val)]

\* The panic of an unwrap in the callback: the closure and its val_clone are
\* gone; the thread dies where the build unwinds, the process where it aborts.
unwrap_panic(s) ==
    LET f == [fetches EXCEPT ![s] = FreeFetch]
    IN /\ fetches' = f
       /\ stocks' = drop_unreferenced(stocks, stocks_map, f)
       /\ latest' = drop_unreferenced_series(latest, stocks_map, f)
       /\ panic' \in {"thread", "process"}
       /\ UNCHANGED stock_lock

\* A callback that takes the default TimeSeries for a response it cannot use.
callback_or_default(s) ==
    /\ Running
    /\ fetches[s].pc = "inflight"
    /\ \E r \in Responses(fetches[s].key) :
         LET o == callback_target(fetches[s])
         IN /\ stock_lock[o] = Unlocked
            /\ write_response(s, r, o)
            /\ UNCHANGED panic
    /\ UNCHANGED <<time_step, box_elements, now, last_update,
                    stock, stocks_map, map_lock, ui_pc,
                   render_todo, cur, points, repaint, trades>>

\* A callback that does not wait for the Stock's mutex.
callback_nowait(s) ==
    /\ Running
    /\ fetches[s].pc = "inflight"
    /\ \E r \in Responses(fetches[s].key) :
         IF r.kind # "ok"
         THEN unwrap_panic(s)
         ELSE /\ write_response(s, r, callback_target(fetches[s]))
              /\ UNCHANGED panic
    /\ UNCHANGED <<time_step, box_elements, now, last_update,
                    stock, stocks_map, map_lock, ui_pc,
                   render_todo, cur, points, repaint, trades>>

\* A callback that puts its Stock back under its key as it writes.
callback_upsert(s) ==
    /\ Running
    /\ fetches[s].pc = "inflight"
    /\ \E r \in Responses(fetches[s].key) :
         IF r.kind # "ok"
         THEN unwrap_panic(s) /\ UNCHANGED stocks_map
         ELSE LET o == callback_target(fetches[s])
              IN /\ stock_lock[o] = Unlocked
                 /\ write_response(s, r, o)
                 /\ stocks_map' = map_insert(stocks_map, fetches[s].key, o)
                 /\ UNCHANGED panic
    /\ UNCHANGED <<time_step, box_elements, now, last_update,
                    stock, map_lock, ui_pc,
                   render_todo, cur, points, repaint, trades>>

\* The closure of update_market_data, lines 278-281, called by ehttp with the
\* response: result.unwrap() and from_slice(..).unwrap() panic on a failed or
\* malformed response; otherwise val_clone.lock().unwrap() waits for the
\* Stock's mutex and set_time_series replaces the series under it.
callback(s) ==
    /\ Running
    /\ fetches[s].pc = "inflight"
    /\ \E r \in Responses(fetches[s].key) :
         IF r.kind # "ok"
         THEN unwrap_panic(s)
         ELSE LET o == callback_target(fetches[s])
              IN /\ stock_lock[o] = Unlocked
                 /\ write_response(s, r, o)
                 /\ UNCHANGED panic
    /\ UNCHANGED <<time_step, box_elements, now, last_update,
                    stock, stocks_map, map_lock, ui_pc,
                   render_todo, cur, points, repaint, trades>>

\* The end of line 281: the guard is dropped, the closure returns.
callback_unlock(s) ==
    /\ Running
    /\ fetches[s].pc = "written"
    /\ stock_lock' = [stock_lock EXCEPT ![callback_target(fetches[s])] = Unlocked]
    /\ LET f == [fetches EXCEPT ![s] = FreeFetch]
       IN /\ fetches' = f
          /\ stocks' = drop_unreferenced(stocks, stocks_map, f)
          /\ latest' = drop_unreferenced_series(latest, stocks_map, f)
    /\ UNCHANGED <<time_step, box_elements, now, last_update,
                    stock, stocks_map, map_lock, ui_pc,
                   render_todo, cur, points, repaint, panic, trades>>

----------------------------------------------------------------------------
(* Specifications *)

\* TemplateApp::default()
Init ==
    /\ now = 0
    /\ last_update = 0
    /\ stock = ""
    /\ stocks_map = EmptyMap
    /\ stocks = <<>>
    /\ stock_lock = <<>>
    /\ map_lock = "none"
    /\ fetches = [s \in Slots |-> FreeFetch]
    /\ ui_pc = "idle"
    /\ render_todo = {}
    /\ cur = ""
    /\ points = <<>>
    /\ time_step = Rat(DEFAULT_STEP_MS, 1)
    /\ box_elements = <<>>
    /\ repaint = FALSE
    /\ panic = "none"
    /\ latest = <<>>
    /\ trades = <<>>

\* The registry, the refresh and the render pass; the user adds symbols and
\* leaves the stock windows alone.
Next ==
    \/ update(now..MaxNow)
    \/ show_trading_panel(PanelEvents)
    \/ show_charts_area
    \/ create_new_stock_window({NoEvent})
    \/ show_order_confirmation_dialog
    \/ \E s \in Slots : callback(s)
    \/ \E s \in Slots : callback_unlock(s)

Spec == Init /\ [][Next]_vars

\* The steps of a frame that has begun, and the steps of the callbacks.
FrameStep ==
    \/ show_trading_panel(PanelEvents)
    \/ show_charts_area
    \/ create_new_stock_window({NoEvent})
    \/ show_order_confirmation_dialog

CallbackStep == \E s \in Slots : callback(s) \/ callback_unlock(s)

\* Scheduling: a frame that has begun runs to its end, a response that has
\* arrived is handled by its callback's thread, and eframe begins a frame
\* when a repaint has been requested. A frame without a request begins only
\* on input, which may never come.
SpecLive ==
    /\ Spec
    /\ WF_vars(FrameStep)
    /\ WF_vars(CallbackStep)
    /\ WF_vars(repaint /\ update(now..MaxNow))

\* One stock window and its order workflow: "A" has been added to the
\* watchlist, and the frames all fall within the second of the last refresh.
InitWindow ==
    /\ now = 0
    /\ last_update = 0
    /\ stock = ""
    /\ stocks_map = map_insert(EmptyMap, "A", Len(<<>>) + 1)
    /\ stocks = <<DefaultStock("A")>>
    /\ stock_lock = <<Unlocked>>
    /\ map_lock = "none"
    /\ fetches = [s \in Slots |-> FreeFetch]
    /\ ui_pc = "idle"
    /\ render_todo = {}
    /\ cur = ""
    /\ points = <<>>
    /\ time_step = Rat(DEFAULT_STEP_MS, 1)
    /\ box_elements = <<>>
    /\ repaint = FALSE
    /\ panic = "none"
    /\ latest = <<NewTimeSeries(<<>>)>>
    /\ trades = <<>>

NextWindow ==
    \/ update({now})
    \/ show_trading_panel({NoEvent})
    \/ show_charts_area
    \/ create_new_stock_window(WindowEvents)
    \/ show_order_confirmation_dialog

SpecWindow == InitWindow /\ [][NextWindow]_vars

\* Samples a response can carry: any timestamps in any order, a rising or a
\* falling candle. Prices are in cents, timestamps in ms.
Timestamps == {0, 1, 3, 1000, 3000}

PlotPoint(ts, rising) ==
    [timestamp |-> ts,
     open      |-> IF rising THEN 1000 ELSE 1010,
     high      |-> 1015,
     low       |-> 995,
     close     |-> IF rising THEN 1010 ELSE 1000,
     volume    |-> 100]

PlotPoints == {PlotPoint(ts, r) : ts \in Timestamps, r \in BOOLEAN}

PlotInputs == UNION {[1..n -> PlotPoints] : n \in 0..MaxPoints}

\* The plot of one stock window: "A" is in the watchlist and a refresh has
\* given its session some series; the frames fall within the second of the
\* last refresh and carry no input.
InitPlot ==
    /\ now = 0
    /\ last_update = 0
    /\ stock = ""
    /\ stocks_map = map_insert(EmptyMap, "A", Len(<<>>) + 1)
    /\ \E d \in PlotInputs :
         /\ stocks = <<set_time_series(DefaultStock("A"), NewTimeSeries(d))>>
         /\ latest = <<NewTimeSeries(d)>>
    /\ stock_lock = <<Unlocked>>
    /\ map_lock = "none"
    /\ fetches = [s \in Slots |-> FreeFetch]
    /\ ui_pc = "idle"
    /\ render_todo = {}
    /\ cur = ""
    /\ points = <<>>
    /\ time_step = Rat(DEFAULT_STEP_MS, 1)
    /\ box_elements = <<>>
    /\ repaint = FALSE
    /\ panic = "none"
    /\ trades = <<>>

NextPlot ==
    \/ update({now})
    \/ show_trading_panel({NoEvent})
    \/ show_charts_area
    \/ create_new_stock_window({NoEvent})
    \/ show_order_confirmation_dialog

SpecPlot == InitPlot /\ [][NextPlot]_vars

----------------------------------------------------------------------------
(* Properties *)

Handles == 1..Len(stocks)

\* The fetch in slot s takes a step.
FetchStep(s) == fetches[s].pc # "free" /\ fetches'[s] # fetches[s]

HeldByFetch(o) == \E s \in Slots : stock_lock[o] = ByFetch(s)

Rendering == ui_pc = "dialog"

\* C1: a completion whose response is a transport failure or does not
\* deserialize leaves every session of the registry, and the registry, as
\* they were: no step of such a callback changes a Stock the map holds.
FailedRefreshKeepsSession ==
    [][\A s \in Slots :
          (fetches[s].pc = "inflight" /\ FetchStep(s) /\ fetches'[s].kind # "ok")
          => /\ stocks_map' = stocks_map
             /\ \A k \in DOMAIN stocks_map :
                   stocks'[stocks_map[k]] = stocks[stocks_map[k]]]_vars

\* A failed completion has run, its thread is gone, and the session it was
\* for still holds the series an earlier completion gave it.
FailedRefreshSeen ==
    /\ panic = "thread"
    /\ \A s \in Slots : fetches[s].pc = "free"
    /\ \E k \in DOMAIN stocks_map : stocks[stocks_map[k]].time_series.data # <<>>

\* C2: a failed or malformed refresh response is never fatal: no panic or
\* abort is reached.
FailedRefreshNeverFatal == panic = "none"

\* C3: a completion for one symbol changes only that symbol's Stock, and
\* every Stock's series is the initial empty one or a payload served for its
\* own symbol.
RegistryIsolation ==
    /\ [](\A o \in Handles :
            Referenced(o, stocks_map, fetches)
            => stocks[o].time_series \in Payloads(stocks[o].stock_name))
    /\ [][\A s \in Slots :
            (fetches[s].pc = "inflight" /\ fetches'[s].pc = "written")
            => \A o \in Handles \ {fetches[s].val} : stocks'[o] = stocks[o]]_vars

\* The completion for A has just written A's payload while B's session holds
\* B's.
BothSessionsOwnPayload ==
    /\ DOMAIN stocks_map = {"A", "B"}
    /\ \E s \in Slots :
         /\ fetches[s].pc = "written"
         /\ fetches[s].key = "A"
         /\ fetches[s].body.data # <<>>
         /\ stocks[stocks_map["A"]].time_series = fetches[s].body
    /\ stocks[stocks_map["B"]].time_series.data # <<>>
    /\ stocks[stocks_map["B"]].time_series \in Payloads("B")

\* C4: no step of a refresh callback changes the registry: a completion for
\* a session that has left the registry does not put it back.
CompletionKeepsRegistry ==
    [][(\E s \in Slots : FetchStep(s)) => stocks_map' = stocks_map]_vars

\* A completion delivered after its session was replaced in the registry
\* has written that session, and the key still leads to the new one.
StaleCompletionApplied ==
    \E s \in Slots :
        /\ fetches[s].pc = "written"
        /\ fetches[s].stale
        /\ fetches[s].body.data # <<>>
        /\ stocks[fetches[s].val].time_series = fetches[s].body
        /\ stocks_map[fetches[s].key] # fetches[s].val
        /\ \A k \in DOMAIN stocks_map : stocks_map[k] # fetches[s].val

\* C5: the snapshot a render takes is exactly the sample sequence of the
\* last replace of that session, in order.
SnapshotIsLastReplace ==
    ui_pc = "dialog" => points = latest[stocks_map[cur]].data

\* A render holds a snapshot of a series that a replace put in place.
SnapshotOfReplaced ==
    /\ ui_pc = "dialog"
    /\ Len(points) >= 2
    /\ points = latest[stocks_map[cur]].data

\* C6: the series a render uses is one payload of its symbol (or the initial
\* empty series), and while the render of a session is in progress no
\* refresh callback changes that session.
RenderSeesOneReplace ==
    /\ [](ui_pc = "dialog" => NewTimeSeries(points) \in Payloads(cur))
    /\ [][(Rendering /\ \E s \in Slots : FetchStep(s))
          => stocks'[stocks_map[cur]] = stocks[stocks_map[cur]]]_vars

\* A render holds its snapshot while a request for the same session is
\* outstanding, whose callback cannot take the mutex.
RenderWhileCompletionWaits ==
    /\ ui_pc = "dialog"
    /\ points # <<>>
    /\ \E s \in Slots :
         /\ fetches[s].pc = "inflight"
         /\ fetches[s].val = stocks_map[cur]

\* C7: whenever no replace of a session is under way, its series is the
\* payload of the replace that took the session last.
LastWriteWins ==
    \A o \in Handles : ~HeldByFetch(o) => stocks[o].time_series = latest[o]

\* Two requests for one session: the callback of one has written its
\* payload, the other's is still to come.
TwoReplacesOneSession ==
    \E s, u \in Slots :
        /\ s # u
        /\ fetches[s].val = fetches[u].val
        /\ fetches[s].pc = "written"
        /\ fetches[u].pc = "inflight"
        /\ fetches[s].body.data # <<>>
        /\ stocks[fetches[s].val].time_series = fetches[s].body

\* C8: Confirm always completes: from the dialog no panic is reached, and an
\* order that is sent leaves the workflow in Editing with both texts empty.
ConfirmOrderCompletes ==
    [][ui_pc = "dialog"
       => /\ panic' = "none"
          /\ trades' # trades
             => LET st == stocks'[stocks_map[cur]]
                IN ~st.show_order_confirmation /\ st.qty = <<>> /\ st.price = <<>>]_vars

PositiveQty(t) == ParseU32(t).ok /\ ParseU32(t).val # <<"0">>
PositivePrice(t) == ParseF32(t).ok /\ ParseF32(t).class = "pos"

\* C9: the workflow enters PendingConfirmation only from BUY or SELL with a
\* quantity and a price that are positive numeric text, and the texts are
\* left as they were.
BeginOrderNeedsPositive ==
    [][(ui_pc = "iter" /\ ui_pc' = "dialog")
       => LET st == stocks[stocks_map[cur']]
              nx == stocks'[stocks_map[cur']]
          IN (nx.show_order_confirmation /\ ~st.show_order_confirmation)
             => /\ PositiveQty(st.qty) /\ PositivePrice(st.price)
                /\ nx.qty = st.qty /\ nx.price = st.price
                /\ nx.pending_order_type \in {"BUY", "SELL"}]_vars

\* The fetches a step has issued for `key`
Issued(key) ==
    {s \in Slots : /\ fetches[s].pc = "free"
                   /\ fetches'[s].pc = "inflight"
                   /\ fetches'[s].key = key}

\* C10: a tick at which now - last refresh >= the interval issues exactly
\* one request per symbol of the registry, for that symbol's key and
\* session, and sets the last refresh time to now; any other tick issues
\* nothing and leaves the last refresh time.
TickIssuesOnePerSymbol ==
    [][(ui_pc = "idle" /\ ui_pc' = "panel")
       => IF now' - last_update >= REFRESH_SECS
          THEN /\ \A k \in DOMAIN stocks_map :
                    /\ Cardinality(Issued(k)) = 1
                    /\ \A s \in Issued(k) : fetches'[s].val = stocks_map[k]
               /\ Cardinality({s \in Slots : fetches'[s] # fetches[s]})
                    = Cardinality(DOMAIN stocks_map)
               /\ last_update' = now'
          ELSE /\ fetches' = fetches
               /\ last_update' = last_update]_vars

\* A tick has just issued the requests for A and for B.
TickIssuedBoth ==
    /\ ui_pc = "panel"
    /\ last_update = now
    /\ now > 0
    /\ DOMAIN stocks_map = {"A", "B"}
    /\ \A k \in DOMAIN stocks_map :
         \E s \in Slots : /\ fetches[s].pc = "inflight"
                          /\ fetches[s].key = k
                          /\ fetches[s].val = stocks_map[k]

\* The completion in slot s has replaced the series of a session of the
\* registry, and no frame that has begun or been requested will draw it: the
\* UI thread waits for the next frame and no redraw request is pending.
WrittenUndrawn(s) ==
    /\ fetches[s].pc = "written"
    /\ stocks_map[fetches[s].key] = fetches[s].val
    /\ ui_pc = "idle"
    /\ ~repaint

\* C11: a completion that has replaced its session's series is followed by
\* a redraw request, at that moment or later (unless a panic cuts the run
\* short). It is stated of the runs in which the user's input comes to an
\* end, so that from some frame on the UI thread waits for a request.
CompletionIsFollowedByRedraw ==
    <>[](ui_pc = "idle")
    => \A s \in Slots : WrittenUndrawn(s) ~> (repaint \/ panic # "none")

\* The quote snapshot of a session is all zero.
ZeroQuote(st) ==
    /\ st.current_price = 0 /\ st.bid_price = 0 /\ st.ask_price = 0
    /\ st.daily_change = 0 /\ st.daily_change_percent = 0 /\ st.volume = 0

\* C12: right after "Add to Watchlist" for symbol k, the registry's entry for
\* k is a session named k with an empty series, a zero quote snapshot and no
\* confirmation pending, whether or not k had an entry; the other entries are
\* as they were; and every key leads to the one session of its own symbol.
AddGivesDefaultSession ==
    /\ [](\A k \in DOMAIN stocks_map : stocks[stocks_map[k]].stock_name = k)
    /\ [][(ui_pc = "panel" /\ Len(stocks') > Len(stocks))
          => LET k  == stocks'[Len(stocks')].stock_name
                 st == stocks'[stocks_map'[k]]
             IN /\ DOMAIN stocks_map' = DOMAIN stocks_map \cup {k}
                /\ \A j \in DOMAIN stocks_map \ {k} : stocks_map'[j] = stocks_map[j]
                /\ st.stock_name = k
                /\ st.time_series.data = <<>>
                /\ ZeroQuote(st)
                /\ ~st.show_order_confirmation
                /\ st.qty = <<>> /\ st.price = <<>>]_vars

\* A has just been added again while its earlier session, which a refresh
\* had filled and a rendering had quoted, is still held by a request in
\* flight.
AddedOverLiveSession ==
    /\ ui_pc = "charts"
    /\ "A" \in DOMAIN stocks_map
    /\ stocks_map["A"] = Len(stocks)
    /\ stocks[stocks_map["A"]].time_series.data = <<>>
    /\ ZeroQuote(stocks[stocks_map["A"]])
    /\ \E s \in Slots :
         /\ fetches[s].pc = "inflight"
         /\ fetches[s].key = "A"
         /\ fetches[s].val # stocks_map["A"]
         /\ stocks[fetches[s].val].time_series.data # <<>>
         /\ ~ZeroQuote(stocks[fetches[s].val])

\* The timestamps of the render's samples, and the sum of f over a set of
\* indices.
PointTimes == [i \in 1..Len(points) |-> points[i].timestamp]

RECURSIVE SumOver(_, _)
SumOver(f, S) ==
    IF S = {} THEN 0
    ELSE LET x == CHOOSE x \in S : TRUE IN f[x] + SumOver(f, S \ {x})

\* The step is the mean of d over the windows in S, at least 1; the default
\* when there are fewer than two samples or S is empty.
StepIsMeanOver(d, S) ==
    IF Len(points) < 2 \/ S = {}
    THEN time_step = Rat(DEFAULT_STEP_MS, 1)
    ELSE RatEq(time_step, RatMax(Rat(SumOver(d, S), Cardinality(S)), Rat(1, 1)))

\* C13 as claimed: the estimated time step is the mean of the consecutive
\* timestamp deltas that are positive, at least 1; the default step for
\* fewer than two samples or no positive delta.
StepIsMeanOfPositiveDeltas ==
    ui_pc = "dialog"
    => LET d == [i \in 1..Len(points) - 1 |-> PointTimes[i + 1] - PointTimes[i]]
       IN StepIsMeanOver(d, {i \in DOMAIN d : d[i] > 0})

\* C13, amended: the estimated time step is the mean of the sizes of the
\* consecutive timestamp deltas that are not zero, whatever their sign, at
\* least 1; the default step for fewer than two samples or no such delta.
StepIsMeanOfDeltaSizes ==
    ui_pc = "dialog"
    => LET d == [i \in 1..Len(points) - 1 |->
                    IF PointTimes[i + 1] < PointTimes[i]
                    THEN PointTimes[i] - PointTimes[i + 1]
                    ELSE PointTimes[i + 1] - PointTimes[i]]
       IN StepIsMeanOver(d, {i \in DOMAIN d : d[i] # 0})

\* Samples at 0, 3000 and 1000 ms, the last one out of order: the deltas are
\* 3000 and -2000 and the step is 2500.
StepOfUnorderedSamples ==
    /\ ui_pc = "dialog"
    /\ PointTimes = <<0, 3000, 1000>>
    /\ RatEq(time_step, Rat(2500, 1))

\* C14 as claimed: for every step the estimate can give, the body width of
\* each candle is 0.6 times the step and its whisker width 0.4 times the
\* body width.
WidthsAreProducts ==
    ui_pc = "dialog"
    => \A i \in DOMAIN box_elements :
          /\ RatEq(box_elements[i].box_width, RatTimes(time_step, Rat(6, 10)))
          /\ RatEq(box_elements[i].whisker_width,
                   RatTimes(box_elements[i].box_width, Rat(4, 10)))

\* C14, amended: the body width is 0.6 times the step where that is at least
\* 1 and 1 below it; the whisker width is 0.4 times the body width where
\* that is at least 1 and 1 below it.
WidthsAreProductsFromOne ==
    ui_pc = "dialog"
    => \A i \in DOMAIN box_elements :
          LET e    == box_elements[i]
              body == RatTimes(time_step, Rat(6, 10))
              wick == RatTimes(e.box_width, Rat(4, 10))
          IN /\ RatLeq(Rat(1, 1), time_step)
             /\ IF RatLeq(Rat(1, 1), body)
                THEN RatEq(e.box_width, body)
                ELSE RatEq(e.box_width, Rat(1, 1))
             /\ IF RatLeq(Rat(1, 1), wick)
                THEN RatEq(e.whisker_width, wick)
                ELSE RatEq(e.whisker_width, Rat(1, 1))

\* Samples 2 ms apart: the body is 1.2 wide, and the whisker 1, not 0.48.
WidthsAtSmallStep ==
    /\ ui_pc = "dialog"
    /\ PointTimes = <<1, 3>>
    /\ RatEq(time_step, Rat(2, 1))
    /\ \A i \in DOMAIN box_elements :
          /\ RatEq(box_elements[i].box_width, Rat(12, 10))
          /\ RatEq(box_elements[i].whisker_width, Rat(1, 1))
    /\ Len(box_elements) = 2

\* C17: the candle built from each sample has its whiskers at the sample's
\* low and high and its body edges at the sample's open and close, and its
\* tooltip reports Open, Close, Low and High as the sample's open, close,
\* low and high.
CandleShowsSample ==
    ui_pc = "dialog"
    => /\ Len(box_elements) = Len(points)
       /\ \A i \in DOMAIN box_elements :
             LET e == box_elements[i]
                 p == points[i]
             IN /\ e.spread.lower_whisker = p.low
                /\ e.spread.upper_whisker = p.high
                /\ {e.spread.quartile1, e.spread.quartile3} = {p.open, p.close}
                /\ e.tooltip.Open = FormatFixed2(p.open)
                /\ e.tooltip.Close = FormatFixed2(p.close)
                /\ e.tooltip.Low = FormatFixed2(p.low)
                /\ e.tooltip.High = FormatFixed2(p.high)

\* C15: while a confirmation is pending, no frame changes the session's
\* quantity text, price text or pending side, and when Confirm is pressed
\* the two texts pass the validation that admitted the order.
SubmittedOrderIsValidatedOrder ==
    /\ [][(ui_pc = "iter" /\ ui_pc' = "dialog")
          => LET st == stocks[stocks_map[cur']]
                 nx == stocks'[stocks_map[cur']]
             IN st.show_order_confirmation
                => /\ nx.qty = st.qty
                   /\ nx.price = st.price
                   /\ nx.pending_order_type = st.pending_order_type]_vars
    /\ [][(ui_pc = "dialog" /\ (trades' # trades \/ panic' # panic))
          => LET st == stocks[stocks_map[cur]]
             IN validate_trade_inputs(st.qty, st.price)]_vars

\* The UI thread holds no mutex.
UiHoldsNothing ==
    /\ map_lock = "none"
    /\ \A o \in Handles : stock_lock[o] # ByUi

\* The mutexes are held in the order map, Stock: the UI thread holds a
\* Stock's mutex only under the map's and holds one Stock at a time; a
\* callback holds the mutex of its own Stock and nothing else.
HeldInOrder ==
    /\ map_lock \in {"none", "ui"}
    /\ \A o \in Handles : stock_lock[o] = ByUi
          => map_lock = "ui" /\ ui_pc = "dialog" /\ stocks_map[cur] = o
    /\ \A o \in Handles : \A s \in Slots : stock_lock[o] = ByFetch(s)
          => fetches[s].pc = "written" /\ callback_target(fetches[s]) = o
    /\ \A s \in Slots : fetches[s].pc = "written"
          => stock_lock[callback_target(fetches[s])] = ByFetch(s)

====
